---- MODULE Spec2Model ----
(***************************************************************************)
(* Model of the `Sql` derive macro of mssql_client_derive (src/lib.rs):    *)
(* directive parsing, field classification, generation of sql_fields_str   *)
(* and of FromRow::from_row, and the execution of the generated from_row   *)
(* against a row.                                                          *)
(*                                                                         *)
(* Text (identifiers, string literals, the column list) is a sequence of   *)
(* one-character strings.  A source position (span) is a record            *)
(* [field, attr, pos]: the field's index in the declaration (0 = the type  *)
(* name), the attribute's index on that field (0 = none) and the token's   *)
(* index inside the directive's parentheses (0 = the keyword, -1 = the     *)
(* attribute as a whole).                                                  *)
(***************************************************************************)
EXTENDS Integers, Sequences, FiniteSets, TLC

\* ---------------------------------------------------------------- bounds
MaxFields == 3
MaxAttrs == 3
MaxToks == 3

\* ------------------------------------------------------------ characters
LowerChars == <<"a","b","c","d","e","f","g","h","i","j","k","l","m",
                "n","o","p","q","r","s","t","u","v","w","x","y","z">>
UpperChars == <<"A","B","C","D","E","F","G","H","I","J","K","L","M",
                "N","O","P","Q","R","S","T","U","V","W","X","Y","Z">>
DigitChars == <<"0","1","2","3","4","5","6","7","8","9">>

InSeq(c, s) == \E i \in 1..Len(s) : s[i] = c
IndexOf(c, s) == CHOOSE i \in 1..Len(s) : s[i] = c

is_lowercase(c) == InSeq(c, LowerChars)
is_uppercase(c) == InSeq(c, UpperChars)
is_numeric(c) == InSeq(c, DigitChars)
is_not_alphanumeric(c) == ~(is_lowercase(c) \/ is_uppercase(c) \/ is_numeric(c))
to_ascii_uppercase(c) == IF is_lowercase(c) THEN UpperChars[IndexOf(c, LowerChars)] ELSE c
to_ascii_lowercase(c) == IF is_uppercase(c) THEN LowerChars[IndexOf(c, UpperChars)] ELSE c

\* ----------------------------------------------- Inflector to_pascal_case
\* str::trim_end_matches(is_not_alphanumeric)
RECURSIVE trim_right(_)
trim_right(s) ==
    IF s = <<>> THEN s
    ELSE IF is_not_alphanumeric(s[Len(s)]) THEN trim_right(SubSeq(s, 1, Len(s) - 1))
    ELSE s

\* One iteration of the character loop of to_case_camel_like with the
\* options of to_pascal_case (first_word = false, has_seperator = false,
\* inverted = false): st = [new_word, last_char, found_real_char, result].
camel_char(st, c) ==
    IF is_not_alphanumeric(c) /\ st.found_real_char
    THEN [st EXCEPT !.new_word = TRUE]
    ELSE IF ~st.found_real_char /\ is_not_alphanumeric(c)
    THEN st
    ELSE IF is_numeric(c)
    THEN [st EXCEPT !.found_real_char = TRUE, !.new_word = TRUE,
                    !.result = Append(@, c)]
    ELSE IF st.new_word
            \/ (is_lowercase(st.last_char) /\ is_uppercase(c) /\ st.last_char # " ")
    THEN [st EXCEPT !.found_real_char = TRUE, !.new_word = FALSE,
                    !.result = Append(@, to_ascii_uppercase(c))]
    ELSE [st EXCEPT !.found_real_char = TRUE, !.last_char = c,
                    !.result = Append(@, to_ascii_lowercase(c))]

RECURSIVE camel_loop(_, _, _)
camel_loop(s, i, st) ==
    IF i > Len(s) THEN st.result
    ELSE camel_loop(s, i + 1, camel_char(st, s[i]))

to_pascal_case(s) ==
    camel_loop(trim_right(s), 1,
               [new_word |-> TRUE, last_char |-> " ",
                found_real_char |-> FALSE, result |-> <<>>])

\* ------------------------------------------------------------------ text
S_default == <<"d","e","f","a","u","l","t">>
S_expr == <<"e","x","p","r">>
S_name == <<"n","a","m","e">>
S_foo == <<"f","o","o">>
S_UID == <<"U","I","D">>
S_a_b == <<"a","_","b">>
S_id == <<"i","d">>
S_user_id == <<"u","s","e","r","_","i","d">>
S_others == <<"o","t","h","e","r","s">>

\* --------------------------------------------------------------- tokens
Tok(k, v) == [k |-> k, v |-> v]
NoTok == Tok("none", <<>>)
T_default == Tok("ident", S_default)
T_expr == Tok("ident", S_expr)
T_name == Tok("ident", S_name)
T_foo == Tok("ident", S_foo)
T_eq == Tok("punct", <<"=">>)
T_UID == Tok("litstr", S_UID)
T_a_b == Tok("litstr", S_a_b)
T_int == Tok("litint", <<"1">>)
\* the expression Default::default() of line 171
DefaultExpr == Tok("call", <<"D","e","f","a","u","l","t",":",":","d","e","f","a","u","l","t","(",")">>)

\* ------------------------------------------------------- errors, results
\* line 234 (the back quotes around the keywords are left out)
MsgExpect == "Expect default, expr, or name"
MsgOnlyStruct == "Only struct are supported by sql derive."
MsgOnlyNamed == "Only struct with named fields are supported by sql derive."
MsgParens == "expected parentheses"
MsgIdent == "expected identifier"
MsgEq == "expected ="
MsgLitStr == "expected string literal"
MsgExprExpected == "expected expression"
MsgUnexpected == "unexpected token"

Error(msg, pos) == [msg |-> msg, field |-> 0, attr |-> 0, pos |-> pos]
NoError == Error("", -1)
NoAttr == [variant |-> "none", expr |-> NoTok, name |-> NoTok]
NoField == [variant |-> "none", ident |-> <<>>, expr |-> NoTok, name |-> NoTok]

\* ------------------------------------------------- impl Parse for SqlAttr
\* Result of parsing inside the parentheses: used = number of tokens consumed.
POk(attr, used) == [ok |-> TRUE, val |-> attr, err |-> NoError, used |-> used]
PErr(msg, pos) == [ok |-> FALSE, val |-> NoAttr, err |-> Error(msg, pos), used |-> 0]

\* content.parse::<Expr>() at token i (1-based): one atom; `=` starts no expression.
Expr_parse(toks, i) ==
    IF i > Len(toks) THEN PErr(MsgExprExpected, i - 1)
    ELSE IF toks[i].k \in {"ident", "litstr", "litint"}
    THEN POk([variant |-> "Expr", expr |-> toks[i], name |-> NoTok], i)
    ELSE PErr(MsgExprExpected, i - 1)

\* content.parse::<LitStr>() at token i
LitStr_parse(toks, i) ==
    IF i <= Len(toks) /\ toks[i].k = "litstr"
    THEN POk([variant |-> "Name", expr |-> NoTok, name |-> toks[i]], i)
    ELSE PErr(MsgLitStr, i - 1)

\* content.parse::<Token![=]>() at token 2
Eq_ok(toks) == Len(toks) >= 2 /\ toks[2] = T_eq

\* variant: an unknown keyword falls through to Default
SqlAttr_parse_lenient(form, toks) ==
    IF form # "paren" THEN PErr(MsgParens, -1)
    ELSE IF toks = <<>> \/ toks[1].k # "ident" THEN PErr(MsgIdent, 0)
    ELSE IF toks[1].v = S_expr
    THEN IF Eq_ok(toks) THEN Expr_parse(toks, 3) ELSE PErr(MsgEq, 1)
    ELSE IF toks[1].v = S_name
    THEN IF Eq_ok(toks) THEN LitStr_parse(toks, 3) ELSE PErr(MsgEq, 1)
    ELSE POk([variant |-> "Default", expr |-> NoTok, name |-> NoTok], 1)

SqlAttr_parse(form, toks) ==
    IF form # "paren" THEN PErr(MsgParens, -1)
    ELSE IF toks = <<>> \/ toks[1].k # "ident" THEN PErr(MsgIdent, 0)
    ELSE IF toks[1].v = S_default
    THEN POk([variant |-> "Default", expr |-> NoTok, name |-> NoTok], 1)
    ELSE IF toks[1].v = S_expr
    THEN IF Eq_ok(toks) THEN Expr_parse(toks, 3) ELSE PErr(MsgEq, 1)
    ELSE IF toks[1].v = S_name
    THEN IF Eq_ok(toks) THEN LitStr_parse(toks, 3) ELSE PErr(MsgEq, 1)
    ELSE PErr(MsgExpect, 0)

\* syn::parse: the parser's result, then the check that the parenthesised
\* content was consumed entirely.
parse_tts(form, toks) ==
    LET r == SqlAttr_parse(form, toks) IN
    IF r.ok /\ r.used < Len(toks) THEN PErr(MsgUnexpected, r.used) ELSE r

\* ------------------------------------------------------- SqlAttr::try_new
SqlPaths == {<<"sql">>, <<"sql_derive", "sql">>}

try_new(a) ==
    IF a.path \in SqlPaths
    THEN [some |-> TRUE, res |-> parse_tts(a.form, a.toks)]
    ELSE [some |-> FALSE, res |-> PErr("", -1)]

\* variant: the last attribute that try_new answers Some for
RECURSIVE last_sql_attr(_, _)
last_sql_attr(attrs, i) ==
    IF i > Len(attrs) THEN [some |-> FALSE, res |-> PErr("", -1), at |-> 0]
    ELSE LET later == last_sql_attr(attrs, i + 1)
             r == try_new(attrs[i]) IN
         IF later.some THEN later
         ELSE IF r.some THEN [some |-> TRUE, res |-> r.res, at |-> i]
         ELSE later

\* f.attrs.iter().filter_map(SqlAttr::try_new).next(): attributes are examined
\* in order, from the i-th, up to the first that try_new answers Some for.
RECURSIVE first_sql_attr(_, _)
first_sql_attr(attrs, i) ==
    IF i > Len(attrs) THEN [some |-> FALSE, res |-> PErr("", -1), at |-> 0]
    ELSE LET r == try_new(attrs[i]) IN
         IF r.some THEN [some |-> TRUE, res |-> r.res, at |-> i]
         ELSE first_sql_attr(attrs, i + 1)

\* ------------------------------------------------ SqlField::new_from_field
FOk(field) == [ok |-> TRUE, val |-> field, err |-> NoError]
FErr(e) == [ok |-> FALSE, val |-> NoField, err |-> e]

\* variant: a directive that fails to parse is dropped, the field is a plain column
new_from_field_drops_error(f) ==
    LET a == first_sql_attr(f.attrs, 1) IN
    IF ~a.some \/ ~a.res.ok
    THEN FOk([variant |-> "SqlUnnamed", ident |-> f.ident, expr |-> NoTok, name |-> NoTok])
    ELSE IF a.res.val.variant = "Expr"
    THEN FOk([variant |-> "Expr", ident |-> f.ident, expr |-> a.res.val.expr, name |-> NoTok])
    ELSE IF a.res.val.variant = "Default"
    THEN FOk([variant |-> "Expr", ident |-> f.ident, expr |-> DefaultExpr, name |-> NoTok])
    ELSE FOk([variant |-> "SqlNamed", ident |-> f.ident, expr |-> NoTok, name |-> a.res.val.name])

new_from_field(f) ==
    LET a == first_sql_attr(f.attrs, 1) IN
    IF ~a.some
    THEN FOk([variant |-> "SqlUnnamed", ident |-> f.ident, expr |-> NoTok, name |-> NoTok])
    ELSE IF ~a.res.ok THEN FErr([a.res.err EXCEPT !.attr = a.at])
    ELSE IF a.res.val.variant = "Expr"
    THEN FOk([variant |-> "Expr", ident |-> f.ident, expr |-> a.res.val.expr, name |-> NoTok])
    ELSE IF a.res.val.variant = "Default"
    THEN FOk([variant |-> "Expr", ident |-> f.ident, expr |-> DefaultExpr, name |-> NoTok])
    ELSE FOk([variant |-> "SqlNamed", ident |-> f.ident, expr |-> NoTok, name |-> a.res.val.name])

\* ------------------------------------------------------------ SqlField::sql
\* variant: the identifier is bracketed without case conversion
SqlField_sql_no_case(f) ==
    IF f.variant = "Expr" THEN [some |-> FALSE, s |-> <<>>]
    ELSE IF f.variant = "SqlNamed" THEN [some |-> TRUE, s |-> f.name.v]
    ELSE [some |-> TRUE, s |-> <<"[">> \o f.ident \o <<"]">>]

\* variant: a renamed column goes through the case conversion as well
SqlField_sql_named_case(f) ==
    IF f.variant = "Expr" THEN [some |-> FALSE, s |-> <<>>]
    ELSE IF f.variant = "SqlNamed" THEN [some |-> TRUE, s |-> to_pascal_case(f.name.v)]
    ELSE [some |-> TRUE, s |-> <<"[">> \o to_pascal_case(f.ident) \o <<"]">>]

SqlField_sql(f) ==
    IF f.variant = "Expr" THEN [some |-> FALSE, s |-> <<>>]
    ELSE IF f.variant = "SqlNamed" THEN [some |-> TRUE, s |-> f.name.v]
    ELSE [some |-> TRUE, s |-> <<"[">> \o to_pascal_case(f.ident) \o <<"]">>]

\* --------------------------------------------------- generation, fn sql
\* s.fields.iter().filter_map(|f| f.sql())
RECURSIVE sql_columns(_)
sql_columns(fs) ==
    IF fs = <<>> THEN <<>>
    ELSE LET c == SqlField_sql(Head(fs)) IN
         (IF c.some THEN <<c.s>> ELSE <<>>) \o sql_columns(Tail(fs))

\* Itertools::join
RECURSIVE join_rest(_, _)
join_rest(ss, sep) ==
    IF ss = <<>> THEN <<>> ELSE sep \o Head(ss) \o join_rest(Tail(ss), sep)

join(ss, sep) == IF ss = <<>> THEN <<>> ELSE Head(ss) \o join_rest(Tail(ss), sep)

sql_fields(fs) == join(sql_columns(fs), <<",">>)

\* variant: no field is filtered out
is_row_field_all(f) == TRUE

\* the idents kept by the filter_map of row_gets
is_row_field(f) == f.variant \in {"SqlNamed", "SqlUnnamed"}

\* .enumerate().map(...): the k-th kept ident reads row.get(k - 1)
row_get(f, k) == [kind |-> "get", ident |-> f.ident, index |-> k - 1,
                  field |-> f.ident, expr |-> NoTok]

\* variant: enumerate before the filter, the index is the declaration position
row_gets_declaration_index(fs) ==
    LET at == SelectSeq([k \in 1..Len(fs) |-> k], LAMBDA k : is_row_field(fs[k])) IN
    [k \in 1..Len(at) |-> row_get(fs[at[k]], at[k])]

row_gets(fs) ==
    LET kept == SelectSeq(fs, is_row_field) IN
    [k \in 1..Len(kept) |-> row_get(kept[k], k)]

is_expr_field(f) == f.variant = "Expr"

expr_get(f) == [kind |-> "expr", ident |-> f.ident, index |-> -1,
                field |-> <<>>, expr |-> f.expr]

expr_gets(fs) ==
    LET kept == SelectSeq(fs, is_expr_field) IN
    [k \in 1..Len(kept) |-> expr_get(kept[k])]

\* variant: the computed fields are emitted first
from_row_body_exprs_first(fs) == expr_gets(fs) \o row_gets(fs)

\* Ok(Self { #(#row_gets,)* #(#expr_gets,)* })
from_row_body(fs) == row_gets(fs) \o expr_gets(fs)

NoOutput == [kind |-> "none", err |-> NoError, sql_fields_str |-> <<>>, from_row |-> <<>>]
CompileError(e) == [kind |-> "error", err |-> e, sql_fields_str |-> <<>>, from_row |-> <<>>]
Generated(fs) == [kind |-> "code", err |-> NoError,
                  sql_fields_str |-> sql_fields(fs), from_row |-> from_row_body(fs)]

\* -------------------------------------------- Struct::from_derive_input
\* match input.data, then match data_struct.fields: the error returned before
\* any field is looked at, or NoError.
\* variant: only the first match is made, any struct goes on to the loop
shape_error_struct_only(shape) ==
    IF shape \in {"enum", "union"} THEN Error(MsgOnlyStruct, -1) ELSE NoError

shape_error(shape) ==
    IF shape \in {"enum", "union"} THEN Error(MsgOnlyStruct, -1)
    ELSE IF shape # "named" THEN Error(MsgOnlyNamed, -1)
    ELSE NoError

\* ----------------------------------------------------------------- inputs
Attr(path, form, toks) == [path |-> path, form |-> form, toks |-> toks]

Tokens == {T_default, T_expr, T_name, T_foo, T_eq, T_UID, T_int}
Forms == {"paren", "bracket", "eq", "empty"}
Causes == {"out of range", "conversion"}

D_default == Attr(<<"sql">>, "paren", <<T_default>>)
D_expr == Attr(<<"sql">>, "paren", <<T_expr, T_eq, T_int>>)
D_name == Attr(<<"sql">>, "paren", <<T_name, T_eq, T_UID>>)
D_name2 == Attr(<<"sql_derive", "sql">>, "paren", <<T_name, T_eq, T_a_b>>)
D_foo == Attr(<<"sql">>, "paren", <<T_foo>>)
D_badname == Attr(<<"sql">>, "paren", <<T_name, T_eq, T_int>>)
D_serde == Attr(<<"serde">>, "paren", <<T_default>>)

\* attribute lists of the fields of whole records
FieldAttrs == {<<>>, <<D_serde>>, <<D_default>>, <<D_expr>>, <<D_name>>,
               <<D_serde, D_name2>>, <<D_foo>>, <<D_badname>>}
IdentPool == <<S_id, S_name, S_others, S_user_id>>

\* strictly increasing index choices: distinct identifiers
Increasing(n) ==
    {c \in [1..n -> 1..Len(IdentPool)] : \A a, b \in 1..n : a < b => c[a] < c[b]}

NamedFields(c, as) == [k \in 1..Len(as) |-> [ident |-> IdentPool[c[k]], attrs |-> as[k]]]

\* fields of a tuple struct carry no identifier
TupleFields(as) == [k \in 1..Len(as) |-> [ident |-> <<>>, attrs |-> as[k]]]

\* attributes of the one-field records
AttrPaths == {<<"sql">>, <<"sql_derive", "sql">>, <<"serde">>}
AttrDirectives == {<<T_default>>, <<T_name, T_eq, T_UID>>, <<T_foo>>}
AttrPool == {Attr(p, "paren", d) : p \in AttrPaths, d \in AttrDirectives}

OneField(attrs) == <<[ident |-> S_user_id, attrs |-> attrs]>>

Min(a, b) == IF a < b THEN a ELSE b

\* The inputs: whole records (struct or union) of up to MaxFields fields;
\* tuple structs, unit structs and enums; one-field records whose directive
\* is any token sequence of up to MaxToks tokens; one-field records with up
\* to MaxAttrs attributes.
IsInput(d) ==
    \/ \E n \in 0..Min(MaxFields, Len(IdentPool)) :
         \E c \in Increasing(n), as \in [1..n -> FieldAttrs], sh \in {"named", "union"} :
            d = [shape |-> sh, fields |-> NamedFields(c, as)]
    \/ \E n \in 1..2 : \E as \in [1..n -> FieldAttrs] :
            d = [shape |-> "tuple", fields |-> TupleFields(as)]
    \/ \E sh \in {"unit", "enum"} : d = [shape |-> sh, fields |-> <<>>]
    \/ \E n \in 0..MaxToks : \E t \in [1..n -> Tokens] :
            d = [shape |-> "named", fields |-> OneField(<<Attr(<<"sql">>, "paren", t)>>)]
    \/ \E f \in Forms :
            d = [shape |-> "named", fields |-> OneField(<<Attr(<<"sql">>, f, <<>>)>>)]
    \/ \E n \in 0..MaxAttrs : \E as \in [1..n -> AttrPool] :
            d = [shape |-> "named", fields |-> OneField(as)]

\* ------------------------------------------------------------------ state
VARIABLES
    input,      \* the DeriveInput handed to the macro
    pc,         \* position in fn sql: "start", "fields", "emit", "done"
    fields,     \* Struct.fields pushed so far (line 138)
    out,        \* the TokenStream returned by fn sql
    rpc,        \* the generated from_row: "idle", "running", "ok", "err"
    rj,         \* next field assignment of the struct literal to evaluate
    reads,      \* the row.get calls made so far, with their outcomes
    built,      \* the field values evaluated so far
    result      \* what from_row returned

vars == <<input, pc, fields, out, rpc, rj, reads, built, result>>

NoResult == [ok |-> FALSE, self |-> <<>>, field |-> <<>>, cause |-> ""]

Init ==
    /\ IsInput(input)
    /\ pc = "start"
    /\ fields = <<>>
    /\ out = NoOutput
    /\ rpc = "idle"
    /\ rj = 0
    /\ reads = <<>>
    /\ built = <<>>
    /\ result = NoResult

rt_vars == <<rpc, rj, reads, built, result>>
gen_vars == <<input, pc, fields, out>>

\* lines 121-147 up to the loop: the shape of the input
CheckShape ==
    /\ pc = "start"
    /\ LET e == shape_error(input.shape) IN
       IF e # NoError
       THEN pc' = "done" /\ out' = CompileError(e)
       ELSE pc' = "fields" /\ out' = out
    /\ UNCHANGED <<input, fields>>
    /\ UNCHANGED rt_vars

\* one iteration of the loop of lines 137-139
ClassifyField ==
    /\ pc = "fields"
    /\ Len(fields) < Len(input.fields)
    /\ LET i == Len(fields) + 1
           r == new_from_field(input.fields[i]) IN
       IF r.ok
       THEN fields' = Append(fields, r.val) /\ pc' = pc /\ out' = out
       ELSE fields' = fields /\ pc' = "done"
            /\ out' = CompileError([r.err EXCEPT !.field = i])
    /\ UNCHANGED input
    /\ UNCHANGED rt_vars

\* lines 72-111: the two impl blocks
Emit ==
    /\ pc = "fields"
    /\ Len(fields) = Len(input.fields)
    /\ pc' = "done"
    /\ out' = Generated(fields)
    /\ UNCHANGED <<input, fields>>
    /\ UNCHANGED rt_vars

\* ----------------------------------------- the generated from_row, running
FromRowCall ==
    /\ pc = "done" /\ out.kind = "code"
    /\ rpc = "idle"
    /\ rpc' = "running"
    /\ rj' = 1
    /\ UNCHANGED <<reads, built, result>>
    /\ UNCHANGED gen_vars

\* variant: a failed read is recorded and the next field is read
RowGet_keeps_reading ==
    /\ rpc = "running"
    /\ rj <= Len(out.from_row)
    /\ out.from_row[rj].kind = "get"
    /\ LET a == out.from_row[rj] IN
       \E r \in {"ok"} \cup Causes :
          /\ reads' = Append(reads, [index |-> a.index, outcome |-> r])
          /\ built' = Append(built, [ident |-> a.ident, from |-> "row",
                                     index |-> a.index, expr |-> NoTok])
          /\ rj' = rj + 1
          /\ UNCHANGED <<rpc, result>>
    /\ UNCHANGED gen_vars

\* ident: row.get(index).map_err(|e| format_err!("Read {} failed; {}", field, e))?
RowGet ==
    /\ rpc = "running"
    /\ rj <= Len(out.from_row)
    /\ out.from_row[rj].kind = "get"
    /\ LET a == out.from_row[rj] IN
       \E r \in {"ok"} \cup Causes :
          /\ reads' = Append(reads, [index |-> a.index, outcome |-> r])
          /\ IF r = "ok"
             THEN /\ built' = Append(built, [ident |-> a.ident, from |-> "row",
                                             index |-> a.index, expr |-> NoTok])
                  /\ rj' = rj + 1
                  /\ UNCHANGED <<rpc, result>>
             ELSE /\ rpc' = "err"
                  /\ result' = [ok |-> FALSE, self |-> <<>>, field |-> a.field, cause |-> r]
                  /\ UNCHANGED <<rj, built>>
    /\ UNCHANGED gen_vars

\* ident: expr
ExprGet ==
    /\ rpc = "running"
    /\ rj <= Len(out.from_row)
    /\ out.from_row[rj].kind = "expr"
    /\ LET a == out.from_row[rj] IN
       built' = Append(built, [ident |-> a.ident, from |-> "expr",
                               index |-> -1, expr |-> a.expr])
    /\ rj' = rj + 1
    /\ UNCHANGED <<rpc, reads, result>>
    /\ UNCHANGED gen_vars

\* Ok(Self { ... })
FromRowReturn ==
    /\ rpc = "running"
    /\ rj > Len(out.from_row)
    /\ rpc' = "ok"
    /\ result' = [ok |-> TRUE, self |-> built, field |-> <<>>, cause |-> ""]
    /\ UNCHANGED <<rj, reads, built>>
    /\ UNCHANGED gen_vars

Next == CheckShape \/ ClassifyField \/ Emit \/ FromRowCall \/ RowGet \/ ExprGet \/ FromRowReturn

Spec == Init /\ [][Next]_vars

\* ======================================================== properties
\* What a field's annotations ask for, read off the input alone.
Recognized(a) == a.path = <<"sql">> \/ a.path = <<"sql_derive", "sql">>
HasDirective(f) == \E k \in 1..Len(f.attrs) : Recognized(f.attrs[k])
FirstDirectiveAt(f) ==
    CHOOSE k \in 1..Len(f.attrs) :
        Recognized(f.attrs[k]) /\ \A j \in 1..(k - 1) : ~Recognized(f.attrs[j])
FirstDirective(f) == f.attrs[FirstDirectiveAt(f)]
IsAtom(t) == t.k \in {"ident", "litstr", "litint"}
IsDefaultD(a) == a.form = "paren" /\ a.toks = <<T_default>>
IsExprD(a) ==
    a.form = "paren" /\ Len(a.toks) = 3 /\ a.toks[1] = T_expr /\ a.toks[2] = T_eq
    /\ IsAtom(a.toks[3])
IsNameD(a) ==
    a.form = "paren" /\ Len(a.toks) = 3 /\ a.toks[1] = T_name /\ a.toks[2] = T_eq
    /\ a.toks[3].k = "litstr"
ValidD(a) == IsDefaultD(a) \/ IsExprD(a) \/ IsNameD(a)
Unnamed(f) == ~HasDirective(f)
Named(f) == HasDirective(f) /\ IsNameD(FirstDirective(f))
Computed(f) == HasDirective(f) /\ (IsDefaultD(FirstDirective(f)) \/ IsExprD(FirstDirective(f)))
Bad(f) == HasDirective(f) /\ ~ValidD(FirstDirective(f))
ColumnBacked(f) == Unnamed(f) \/ Named(f)

\* PascalCase of the identifiers of IdentPool, written out
PascalName(ident) ==
    CASE ident = S_id -> <<"I","d">>
      [] ident = S_name -> <<"N","a","m","e">>
      [] ident = S_others -> <<"O","t","h","e","r","s">>
      [] ident = S_user_id -> <<"U","s","e","r","I","d">>

Bracketed(s) == <<"[">> \o s \o <<"]">>

\* the entries of a column list: the text between the commas
RECURSIVE Split(_)
Split(s) ==
    IF \A i \in 1..Len(s) : s[i] # ","
    THEN <<s>>
    ELSE LET i == CHOOSE k \in 1..Len(s) : s[k] = "," /\ \A j \in 1..(k - 1) : s[j] # ","
         IN <<SubSeq(s, 1, i - 1)>> \o Split(SubSeq(s, i + 1, Len(s)))
Entries(s) == IF s = <<>> THEN <<>> ELSE Split(s)

Idents(fs) == [k \in 1..Len(fs) |-> fs[k].ident]
IsGet(a) == a.kind = "get"
Gets == SelectSeq(out.from_row, IsGet)
GeneratedOk == pc = "done" /\ out.kind = "code"
\* how many column-backed fields the declaration has up to its i-th field
ColumnRank(fs, i) == Cardinality({j \in 1..i : ColumnBacked(fs[j])})
InPool(fs) == \A k \in 1..Len(fs) : InSeq(fs[k].ident, IdentPool)

\* ------------------------------------------------------------------- C1
RECURSIVE C1_Expected(_)
C1_Expected(fs) ==
    IF fs = <<>> THEN <<>>
    ELSE LET n == Len(fs)
             last == Bracketed(PascalName(fs[n].ident))
         IN IF n = 1 THEN last
            ELSE C1_Expected(SubSeq(fs, 1, n - 1)) \o <<",">> \o last

\* C1: when no field of the record carries a directive, sql_fields_str is the
\* PascalCase of each field identifier, in square brackets, joined by single
\* commas without spaces, in declaration order; no fields give the empty
\* string, and generation succeeds.
C1_UnnamedColumnList ==
    (pc = "done" /\ input.shape = "named" /\ InPool(input.fields)
        /\ \A k \in 1..Len(input.fields) : Unnamed(input.fields[k]))
    => /\ out.kind = "code"
       /\ out.sql_fields_str = C1_Expected(input.fields)

C1_Witness ==
    /\ pc = "done"
    /\ Idents(input.fields) = <<S_id, S_user_id>>
    /\ \A k \in 1..2 : Unnamed(input.fields[k])
    /\ out.sql_fields_str = <<"[","I","d","]",",","[","U","s","e","r","I","d","]">>

\* ------------------------------------------------------------------- C2
\* the literal of the directive (name = "X") of field f
NameLiteral(f) == FirstDirective(f).toks[3].v
ColumnEntry(i) == Entries(out.sql_fields_str)[ColumnRank(input.fields, i)]

\* C2 as stated: a field with (name = "X") has the entry [X], X in square
\* brackets, in the column list.
C2_NamedBracketed ==
    GeneratedOk =>
        \A i \in 1..Len(input.fields) :
            Named(input.fields[i])
            => ColumnEntry(i) = Bracketed(NameLiteral(input.fields[i]))

\* C2 amended: a field with (name = "X") has the entry X in the column list:
\* the literal's characters and casing unchanged, no PascalCase conversion,
\* and no square brackets added.
C2_NamedVerbatim ==
    GeneratedOk =>
        \A i \in 1..Len(input.fields) :
            Named(input.fields[i])
            => ColumnEntry(i) = NameLiteral(input.fields[i])

C2_Witness ==
    /\ GeneratedOk
    /\ Len(input.fields) = 1
    /\ input.fields[1].ident = S_user_id
    /\ input.fields[1].attrs = <<D_name>>
    /\ out.sql_fields_str = S_UID

\* ------------------------------------------------------------------- C3
\* the wire name of a column-backed field
WireName(f) == IF Named(f) THEN NameLiteral(f) ELSE Bracketed(PascalName(f.ident))
ColumnFields == SelectSeq(input.fields, ColumnBacked)

\* C3: the column list and the positional reads agree: as many entries as
\* reads, the reads are at positions 0..n-1 and belong to the column-backed
\* fields in declaration order, and the k-th entry is the wire name of the
\* field read at position k.
C3_ColumnsMatchPositions ==
    GeneratedOk =>
        /\ Len(Entries(out.sql_fields_str)) = Len(Gets)
        /\ Len(Gets) = Len(ColumnFields)
        /\ \A k \in 1..Len(Gets) :
            /\ Gets[k].index = k - 1
            /\ Gets[k].ident = ColumnFields[k].ident
            /\ Entries(out.sql_fields_str)[k] = WireName(ColumnFields[k])

C3_Witness ==
    /\ GeneratedOk
    /\ Idents(input.fields) = <<S_id, S_others, S_user_id>>
    /\ Unnamed(input.fields[1]) /\ Computed(input.fields[2]) /\ Named(input.fields[3])
    /\ Len(Gets) = 2
    /\ Gets[2].ident = S_user_id /\ Gets[2].index = 1
    /\ Entries(out.sql_fields_str) = <<Bracketed(<<"I","d">>), S_UID>>

\* ------------------------------------------------------------------- C4
ComputedFields == SelectSeq(input.fields, Computed)

\* C4 as stated: the assignments of the record-construction expression are in
\* declaration order, not grouped by kind.
C4_DeclarationOrder ==
    GeneratedOk => Idents(out.from_row) = Idents(input.fields)

\* C4 amended: the assignments are grouped by kind: first the column-backed
\* fields, in declaration order, then the computed fields, in declaration
\* order.
C4_GroupedByKind ==
    GeneratedOk => Idents(out.from_row) = Idents(ColumnFields) \o Idents(ComputedFields)

C4_Witness ==
    /\ GeneratedOk
    /\ Idents(input.fields) = <<S_id, S_name, S_others>>
    /\ Unnamed(input.fields[1]) /\ Computed(input.fields[2]) /\ Unnamed(input.fields[3])
    /\ Idents(out.from_row) = <<S_id, S_others, S_name>>

\* ------------------------------------------------------------------- C5
AssignmentsOf(ident) == {k \in 1..Len(out.from_row) : out.from_row[k].ident = ident}
\* the expression a computed field is built from
ComputedExpr(f) ==
    IF IsDefaultD(FirstDirective(f)) THEN DefaultExpr ELSE FirstDirective(f).toks[3]

\* C5: a (default) or (expr = e) field has no entry in the column list and
\* no positional slot, and its assignment is its expression, without a row
\* read; the row reads are as many as the column-backed fields, and every
\* declared field is assigned exactly once.
C5_ComputedOutsideRow ==
    GeneratedOk =>
        /\ Len(Gets) = Len(ColumnFields)
        /\ Len(Entries(out.sql_fields_str)) = Len(ColumnFields)
        /\ Len(out.from_row) = Len(input.fields)
        /\ \A i \in 1..Len(input.fields) :
            /\ Cardinality(AssignmentsOf(input.fields[i].ident)) = 1
            /\ Computed(input.fields[i]) =>
                \A k \in AssignmentsOf(input.fields[i].ident) :
                    /\ out.from_row[k].kind = "expr"
                    /\ out.from_row[k].index = -1
                    /\ out.from_row[k].expr = ComputedExpr(input.fields[i])
                    /\ \A g \in 1..Len(Gets) : Gets[g].ident # input.fields[i].ident

C5_Witness ==
    /\ GeneratedOk
    /\ Idents(input.fields) = <<S_id, S_name, S_others>>
    /\ Computed(input.fields[1]) /\ Unnamed(input.fields[2]) /\ Computed(input.fields[3])
    /\ input.fields[1].attrs = <<D_expr>> /\ input.fields[3].attrs = <<D_default>>
    /\ Len(Gets) = 1 /\ Gets[1].index = 0 /\ Gets[1].ident = S_name
    /\ out.sql_fields_str = Bracketed(<<"N","a","m","e">>)

\* ------------------------------------------------------------------- C6
AllOk(rs) == \A k \in 1..Len(rs) : rs[k].outcome = "ok"

\* C6: from_row reads the column-backed fields at positions 0, 1, 2, ... in
\* that order; the first failing read ends it with an error that names that
\* field and carries the cause: nothing is read after it, no record is
\* returned, and a record is returned only after every read succeeded.
C6_FailFast ==
    /\ \A k \in 1..Len(reads) : reads[k].index = k - 1
    /\ Len(reads) <= Len(ColumnFields)
    /\ Len(reads) > 0 => AllOk(SubSeq(reads, 1, Len(reads) - 1))
    /\ rpc \in {"idle", "running", "ok", "err"}
    /\ rpc \in {"running", "ok"} => AllOk(reads)
    /\ rpc = "ok" => /\ Len(reads) = Len(ColumnFields)
                     /\ result.ok /\ Len(result.self) = Len(input.fields)
    /\ rpc = "err" =>
        /\ Len(reads) > 0
        /\ reads[Len(reads)].outcome \in Causes
        /\ ~result.ok
        /\ result.self = <<>>
        /\ result.field = ColumnFields[Len(reads)].ident
        /\ result.cause = reads[Len(reads)].outcome
        /\ ~ENABLED Next

C6_Witness ==
    /\ rpc = "err"
    /\ Idents(input.fields) = <<S_id, S_name, S_others, S_user_id>>
       \/ Idents(input.fields) = <<S_id, S_name, S_user_id>>
    /\ Len(ColumnFields) = 3
    /\ Len(reads) = 2
    /\ result.field = S_name
    /\ result.cause = "conversion"

\* ------------------------------------------------------------------- C7
Keywords == {S_default, S_expr, S_name}
HasKeyword(a) == a.form = "paren" /\ Len(a.toks) >= 1 /\ a.toks[1].k = "ident"
UnknownKeyword(a) == HasKeyword(a) /\ a.toks[1].v \notin Keywords
MalformedPayload(a) == HasKeyword(a) /\ a.toks[1].v \in Keywords /\ ~ValidD(a)
\* the first field, in declaration order, whose directive is not a valid one
FirstBad == CHOOSE i \in 1..Len(input.fields) :
                Bad(input.fields[i]) /\ \A j \in 1..(i - 1) : ~Bad(input.fields[j])
SomeBad == \E i \in 1..Len(input.fields) : Bad(input.fields[i])
Done(sh) == pc = "done" /\ input.shape = sh

\* C7 as stated: an unknown keyword or a malformed payload fails with the
\* error at the keyword's position whose message lists the three keywords.
C7_AlwaysKeywordError ==
    (Done("named") /\ SomeBad) =>
        LET a == FirstDirective(input.fields[FirstBad]) IN
        (UnknownKeyword(a) \/ MalformedPayload(a))
        => /\ out.kind = "error"
           /\ out.err.msg = MsgExpect
           /\ out.err.pos = 0

\* C7 amended: both fail the generation.  An unknown keyword fails with the
\* error at the keyword's position whose message lists the three keywords; a
\* malformed payload fails with the parser's own error (a missing =, string
\* literal or expression, or an unexpected token), at the position after the
\* keyword where the payload goes wrong, and its message lists no keywords.
C7_KeywordOrPayloadError ==
    (Done("named") /\ SomeBad) =>
        LET a == FirstDirective(input.fields[FirstBad]) IN
        /\ UnknownKeyword(a) =>
            /\ out.kind = "error"
            /\ out.err.msg = MsgExpect
            /\ out.err.pos = 0
        /\ MalformedPayload(a) =>
            /\ out.kind = "error"
            /\ out.err.msg \in {MsgEq, MsgLitStr, MsgExprExpected, MsgUnexpected}
            /\ out.err.pos >= 1
            /\ out.err.pos <= Len(a.toks)

C7_Witness ==
    /\ Done("named")
    /\ Len(input.fields) = 1
    /\ input.fields[1].attrs = <<Attr(<<"sql">>, "paren", <<T_name, T_eq, T_int>>)>>
    /\ out.kind = "error"
    /\ out.err.msg = MsgLitStr
    /\ out.err.pos = 2

\* ------------------------------------------------------------------- C8
\* C8: when some field's directive does not parse, the output is the
\* diagnostic of the first such field in declaration order, at that field's
\* directive, whatever the other fields are; neither sql_fields_str nor
\* from_row is emitted, so from_row never runs.
C8_FirstFailureAborts ==
    (input.shape = "named" /\ SomeBad) =>
        /\ out.kind # "code"
        /\ rpc = "idle"
        /\ pc = "done" =>
            /\ out.kind = "error"
            /\ out.err.field = FirstBad
            /\ out.err.attr = FirstDirectiveAt(input.fields[FirstBad])
            /\ out.sql_fields_str = <<>>
            /\ out.from_row = <<>>

C8_Witness ==
    /\ Done("named")
    /\ Len(input.fields) = 3
    /\ ~Bad(input.fields[1]) /\ Bad(input.fields[2]) /\ Bad(input.fields[3])
    /\ input.fields[2].attrs # input.fields[3].attrs
    /\ out.kind = "error"
    /\ out.err.field = 2

\* ------------------------------------------------------------------- C9
TypeName(e) == e.field = 0 /\ e.attr = 0 /\ e.pos = -1

\* C9 as stated: anything but a struct with named fields fails with the error
\* at the type's name saying that only structs with named fields are
\* supported; nothing is generated and no field is classified.
C9_OnlyNamedMessage ==
    input.shape # "named" =>
        /\ fields = <<>>
        /\ out.kind # "code"
        /\ pc = "done" =>
            /\ out.kind = "error"
            /\ TypeName(out.err)
            /\ out.err.msg = MsgOnlyNamed

\* C9 amended: anything but a struct with named fields fails with an error at
\* the type's name; for an enum or a union it says that only structs are
\* supported, for a tuple or unit struct that only structs with named fields
\* are supported; nothing is generated and no field is classified.
C9_UnsupportedShape ==
    input.shape # "named" =>
        /\ fields = <<>>
        /\ out.kind # "code"
        /\ rpc = "idle"
        /\ pc = "done" =>
            /\ out.kind = "error"
            /\ TypeName(out.err)
            /\ out.err.msg = (IF input.shape \in {"tuple", "unit"}
                              THEN MsgOnlyNamed ELSE MsgOnlyStruct)
            /\ out.sql_fields_str = <<>>
            /\ out.from_row = <<>>

C9_Witness ==
    /\ Done("union")
    /\ Len(input.fields) = 2
    /\ Bad(input.fields[1])
    /\ out.kind = "error"
    /\ out.err.msg = MsgOnlyStruct

\* ------------------------------------------------------------------ C10
\* what the first recognized directive of f, taken alone, classifies f as
ExpectedField(f) ==
    IF Unnamed(f) THEN [variant |-> "SqlUnnamed", ident |-> f.ident, expr |-> NoTok, name |-> NoTok]
    ELSE IF Named(f)
    THEN [variant |-> "SqlNamed", ident |-> f.ident, expr |-> NoTok,
          name |-> FirstDirective(f).toks[3]]
    ELSE [variant |-> "Expr", ident |-> f.ident, expr |-> ComputedExpr(f), name |-> NoTok]

\* C10: a field is classified by its first attribute in the sql namespace
\* alone: other attributes are skipped, later sql attributes are ignored, so
\* the field fails exactly when that first directive is malformed and is
\* otherwise classified as that directive says.
C10_FirstDirectiveOnly ==
    Done("named") =>
        /\ \A i \in 1..Len(fields) :
            /\ ~Bad(input.fields[i])
            /\ fields[i] = ExpectedField(input.fields[i])
        /\ out.kind = "code" => Len(fields) = Len(input.fields)
        /\ out.kind = "error" =>
            /\ Len(fields) < Len(input.fields)
            /\ Bad(input.fields[Len(fields) + 1])
            /\ out.err.field = Len(fields) + 1
            /\ out.err.attr = FirstDirectiveAt(input.fields[Len(fields) + 1])

C10_Witness ==
    /\ Done("named")
    /\ Len(input.fields) = 1
    /\ Len(input.fields[1].attrs) = 3
    /\ ~Recognized(input.fields[1].attrs[1])
    /\ input.fields[1].attrs[2].path = <<"sql_derive", "sql">>
    /\ input.fields[1].attrs[2].toks = <<T_name, T_eq, T_UID>>
    /\ input.fields[1].attrs[3].path = <<"sql">>
    /\ input.fields[1].attrs[3].toks = <<T_foo>>
    /\ out.kind = "code"
    /\ fields[1].variant = "SqlNamed"

====
